---- MODULE Spec2Model ----
(***************************************************************************)
(* TimetableSolver of time_table.py: the conflict tables, the ledger of    *)
(* remaining periods, the class timetables and the backtracking search,    *)
(* one action per step of solve / solve_for_class.backtrack.               *)
(*                                                                         *)
(* Encoding.  The day key f"Day {d}" of a timetable is the pair            *)
(* <<"Day", d>>, the conflict tables are keyed by the integer d as in the  *)
(* code; a day's list of slots is a function on 0 .. periods-1; a slot is  *)
(* the triple <<subject, teacher, room>>.  A Python dict is a function     *)
(* together with the sequence of its keys in insertion order.              *)
(***************************************************************************)
EXTENDS Integers, Sequences, FiniteSets, TLC

\* ------------------------------------------------------------------ bounds
MaxDays == 2
MaxPeriods == 4
MaxLab == 2
MaxCredit == 6
MaxAppDays == 1
MaxAppPeriods == 2

\* --------------------------------------------------------------- sentinels
FREE_HOUR == "FREE HOUR"
DASH == "-"
FreeSlot == <<FREE_HOUR, DASH, DASH>>

\* Python's None, True and False where one variable holds None first and a
\* bool later (the value a call returns): values of one type
None == "None"
True == "True"
False == "False"

\* f"Day {d}"
DayKey(d) == <<"Day", d>>

\* ------------------------------------------------------------ input family
\* Python compares str by code point: the rank of every name of the model.
NameRank(n) ==
    CASE n = "A" -> 1 [] n = "B" -> 2 [] n = "Lab" -> 3 [] n = "Math" -> 4
      [] n = "Phy" -> 5 [] n = "Sub" -> 6 [] OTHER -> 7

SubjectData(t, c, l, lc, r) ==
    [teacher |-> t, credit |-> c, lab |-> l, lab_continuous |-> lc, rooms |-> r]

\* Phy: teacher T1, room R1; a regular subject or a lab of any block length.
PhyVariants ==
    {SubjectData("T1", 1, FALSE, 1, <<"R1">>)}
      \cup {SubjectData("T1", 1, TRUE, L, <<"R1">>) : L \in 0..MaxLab}

\* Math: a regular subject; no teacher, teacher T2 with two candidate rooms,
\* or a teacher whose name is the sentinel "-".
MathVariants ==
    {SubjectData("", 1, FALSE, 1, <<>>),
     SubjectData("T2", 1, FALSE, 1, <<"R1", "R2">>),
     SubjectData("-", 1, FALSE, 1, <<>>)}

\* Sub (class B): shares teacher or room with class A.
SubVariants ==
    {SubjectData(t, c, FALSE, 1, <<"R1">>) : t \in {"T1", "T2"}, c \in {1, 2}}

\* key orders of the classes dict with class B: B is inserted first when its
\* subject has teacher T2
KeyOrder(cb) ==
    IF cb.subjects["Sub"].teacher = "T2" THEN <<"B", "A">> ELSE <<"A", "B">>

ClassInfo(ord, subj, m, a) ==
    [order |-> ord, subjects |-> subj, morning |-> m, afternoon |-> a]

\* preference sets of class A: none, Math in the morning and Phy in the
\* afternoon, Phy in the morning
PrefsA(names) ==
    {pr \in {<<{}, {}>>, <<{"Math"}, {"Phy"}>>, <<{"Phy"}, {}>>} :
        (pr[1] \cup pr[2]) \subseteq names /\ (pr[1] \cup pr[2] = {} \/ names \subseteq (pr[1] \cup pr[2]))}

ClassAVariants ==
    {ClassInfo(<<"Phy">>, [n \in {"Phy"} |-> ph], pr[1], pr[2]) :
        ph \in PhyVariants, pr \in PrefsA({"Phy"})}
    \cup {ClassInfo(<<"Math">>, [n \in {"Math"} |-> ma], {}, {}) : ma \in MathVariants}
    \cup UNION {{ClassInfo(<<"Phy", "Math">>,
                     [n \in {"Phy", "Math"} |-> IF n = "Phy" THEN ph ELSE ma],
                     pr[1], pr[2]) : pr \in PrefsA({"Phy", "Math"})} :
                 ph \in PhyVariants, ma \in MathVariants}

ClassBVariants ==
    {ClassInfo(<<"Sub">>, [n \in {"Sub"} |-> su], {}, {}) : su \in SubVariants}

\* the classes dict: its key order and its values
ClassesVariants ==
    {[order |-> <<"A">>, info |-> [c \in {"A"} |-> ca]] : ca \in ClassAVariants}
    \cup {[order |-> KeyOrder(cb), info |-> [c \in {"A", "B"} |-> IF c = "A" THEN ca ELSE cb]] :
                 ca \in ClassAVariants, cb \in ClassBVariants}

\* a second family, for the credit mapping: class A has the one subject Phy
\* with any credit of -MaxCredit .. MaxCredit (0 is the default of the
\* subjects table), as a regular subject or as a lab with a block of
\* 1 .. MaxLab, alone or next to a class B; the two subjects then share the
\* teacher T1 and the room R1, or have no teacher and a room each
CreditVariants ==
    LET phys(t) == {SubjectData(t, c, FALSE, 1, <<"R1">>) : c \in (0 - MaxCredit)..MaxCredit}
                   \cup {SubjectData(t, c, TRUE, l, <<"R1">>) :
                             c \in (0 - MaxCredit)..MaxCredit, l \in 1..MaxLab}
        ca(ph) == ClassInfo(<<"Phy">>, [n \in {"Phy"} |-> ph], {}, {})
        cb(t) == ClassInfo(<<"Sub">>,
                     [n \in {"Sub"} |->
                         SubjectData(t, 1, FALSE, 1, IF t = "" THEN <<"R2">> ELSE <<"R1">>)],
                     {}, {})
    IN  {[order |-> <<"A">>, info |-> [c \in {"A"} |-> ca(ph)]] : ph \in phys("T1")}
        \cup UNION {{[order |-> <<"A", "B">>,
                      info |-> [c \in {"A", "B"} |-> IF c = "A" THEN ca(ph) ELSE cb(t)]] :
                        ph \in phys(t)} : t \in {"T1", ""}}

\* a third family, the inputs of the end-to-end scenarios: class A with the
\* one subject Math; classes A and B, each with a subject Sub of the same
\* teacher and no room; class A with the one lab Lab of blocks of two
ScenarioVariants ==
    LET one(c, s, sd) == [order |-> <<c>>,
                          info |-> [k \in {c} |-> ClassInfo(<<s>>, [n \in {s} |-> sd], {}, {})]]
        sub == ClassInfo(<<"Sub">>, [n \in {"Sub"} |-> SubjectData("T", 1, FALSE, 1, <<>>)], {}, {})
    IN  {one("A", "Math", SubjectData("T1", 1, FALSE, 1, <<"R1">>)),
         [order |-> <<"A", "B">>, info |-> [k \in {"A", "B"} |-> sub]],
         one("A", "Lab", SubjectData("T", 1, TRUE, 2, <<"R">>))}


\* -------------------------------------------------------------------- state
VARIABLES
    classes,            \* self.classes: class name -> ClassInfo
    class_keys,         \* insertion order of the keys of self.classes
    days, periods,      \* self.days, self.periods
    teacher_schedule,   \* day -> period -> set of busy teachers
    room_schedule,      \* day -> period -> set of busy rooms
    remaining_periods,  \* class -> subject -> periods still to place
    timetable,          \* class -> day -> period -> <<subject, teacher, room>>
    pc,                 \* position of solve
    sorted_classes,     \* solve: the processing order
    idx,                \* solve: 1-based index of the class being solved
    stack,              \* frames of backtrack, innermost last
    ret,                \* value returned by the last backtrack call that ended
    lab_off,            \* place_lab_continuous: offset of the next write
    progress,           \* calls of progress_callback, in order
    result,             \* value returned by solve (None while running)
    lab_log,            \* calls of place_lab_continuous that returned True, in order
    state,              \* TimetableApp.state: classes, days, periods, timetables, teacher_schedules
    solver_thread,      \* position of the thread running run_solver ("none" before the first)
    alive_threads,      \* number of solver threads that are alive
    copy,               \* run_solver: the deepcopy in progress
    ui,                 \* position of the UI thread ("idle" between handlers)
    status,             \* the last message shown by update_status or a message box
    called_with         \* state['classes'] as generate_timetables found it, while its thread lives

vars == <<classes, class_keys, days, periods, teacher_schedule, room_schedule,
          remaining_periods, timetable, pc, sorted_classes, idx, stack, ret,
          lab_off, progress, result, lab_log,
          state, solver_thread, alive_threads, copy, ui, status, called_with>>

\* the variables of the application around the solver
app_vars == <<state, solver_thread, alive_threads, copy, ui, status, called_with>>

\* an empty dict
EmptyDict == [order |-> <<>>, info |-> <<>>]

\* the solver used on its own: no application around it
NoApp ==
    /\ state = [classes |-> EmptyDict, days |-> 0, periods |-> 0,
                timetables |-> EmptyDict, teacher_schedules |-> <<>>]
    /\ solver_thread = "none"
    /\ alive_threads = 0
    /\ copy = "none"
    /\ ui = "idle"
    /\ status = ""
    /\ called_with = EmptyDict

input_vars == <<classes, class_keys, days, periods>>

\* the four mutable tables of the solver as one value
SolverState ==
    [teacher_schedule |-> teacher_schedule, room_schedule |-> room_schedule,
     remaining_periods |-> remaining_periods, timetable |-> timetable]

Max(a, b) == IF a >= b THEN a ELSE b

\* credit_to_periods without its mapping table: twice the credit throughout
credit_to_periods_doubled(credit) == Max(1, credit * 2)

credit_to_periods(credit) ==
    CASE credit = 1 -> 3
      [] credit = 3 -> 5
      [] credit = 4 -> 7
      [] OTHER -> Max(1, credit * 2)

\* the tuple comparison without the lab flag: remaining periods, then name
PriorityLessNoLab(a, b) ==
    \/ a[2] < b[2]
    \/ a[2] = b[2] /\ NameRank(a[3]) < NameRank(b[3])

\* tuple comparison of ((-int(lab), -remaining), subject)
PriorityLess(a, b) ==
    \/ a[1] < b[1]
    \/ a[1] = b[1] /\ a[2] < b[2]
    \/ a[1] = b[1] /\ a[2] = b[2] /\ NameRank(a[3]) < NameRank(b[3])

\* subjects.sort(): stable insertion by the tuple order
InsertByPriority(x, s) ==
    LET later == {j \in 1..Len(s) : PriorityLess(x, s[j])}
        pos == IF later = {} THEN Len(s) + 1
               ELSE CHOOSE j \in later : \A k \in later : j <= k
    IN  SubSeq(s, 1, pos - 1) \o <<x>> \o SubSeq(s, pos, Len(s))

get_prioritized_subjects(st, class_name) ==
    LET rem == st.remaining_periods[class_name]
        items == classes[class_name].order
        priority(s) == <<-(IF classes[class_name].subjects[s].lab THEN 1 ELSE 0), -rem[s]>>
        \* the loop over remaining_periods[class_name].items()
        subjects[k \in 0..Len(items)] ==
            IF k = 0 THEN <<>>
            ELSE IF rem[items[k]] > 0
                 THEN Append(subjects[k - 1],
                             <<priority(items[k])[1], priority(items[k])[2], items[k]>>)
                 ELSE subjects[k - 1]
        unsorted == subjects[Len(items)]
        srt[k \in 0..Len(unsorted)] ==
            IF k = 0 THEN <<>> ELSE InsertByPriority(unsorted[k], srt[k - 1])
        sorted == srt[Len(unsorted)]
    IN  [k \in 1..Len(sorted) |-> sorted[k][3]]

\* can_place_subject with one of its checks left out ("teacher", "room",
\* "day", "morning"): the slips the properties below must notice
can_place_without(st, class_name, day, period, subject_name, left_out) ==
    IF subject_name = FREE_HOUR THEN TRUE
    ELSE
      LET subject_data == classes[class_name].subjects[subject_name]
          teacher == subject_data.teacher
          rooms == subject_data.rooms
          day_schedule == st.timetable[class_name][DayKey(day)]
          mid_period == periods \div 2
      IN  /\ left_out = "teacher"
                \/ ~(teacher # "" /\ teacher \in st.teacher_schedule[day][period])
          /\ left_out = "room"
                \/ rooms = <<>>
                \/ \E k \in 1..Len(rooms) : rooms[k] \notin st.room_schedule[day][period]
          /\ left_out = "day"
                \/ ~(\E q \in DOMAIN day_schedule : day_schedule[q][1] = subject_name)
          /\ left_out = "morning"
                \/ ~(subject_name \in classes[class_name].morning /\ period >= mid_period)
          /\ ~(subject_name \in classes[class_name].afternoon /\ period < mid_period)

can_place_subject_no_teacher(st, class_name, day, period, subject_name) ==
    can_place_without(st, class_name, day, period, subject_name, "teacher")

can_place_subject_no_room(st, class_name, day, period, subject_name) ==
    can_place_without(st, class_name, day, period, subject_name, "room")

can_place_subject_no_day(st, class_name, day, period, subject_name) ==
    can_place_without(st, class_name, day, period, subject_name, "day")

can_place_subject_no_morning(st, class_name, day, period, subject_name) ==
    can_place_without(st, class_name, day, period, subject_name, "morning")

can_place_subject(st, class_name, day, period, subject_name) ==
    IF subject_name = FREE_HOUR THEN TRUE
    ELSE
      LET subject_data == classes[class_name].subjects[subject_name]
          teacher == subject_data.teacher
          rooms == subject_data.rooms
          day_schedule == st.timetable[class_name][DayKey(day)]
          mid_period == periods \div 2
      IN  IF teacher # "" /\ teacher \in st.teacher_schedule[day][period] THEN FALSE
          ELSE IF rooms # <<>>
                  /\ ~(\E k \in 1..Len(rooms) : rooms[k] \notin st.room_schedule[day][period])
               THEN FALSE
          ELSE IF \E q \in DOMAIN day_schedule : day_schedule[q][1] = subject_name THEN FALSE
          ELSE IF subject_name \in classes[class_name].morning /\ period >= mid_period THEN FALSE
          ELSE IF subject_name \in classes[class_name].afternoon /\ period < mid_period THEN FALSE
          ELSE TRUE

\* SelectRoom taking the first listed room without looking at the table
SelectRoomFirst(rooms, busy) ==
    IF rooms = <<>> THEN DASH ELSE rooms[1]

\* SelectRoom running its loop without the break: the last free room wins
SelectRoomLast(rooms, busy) ==
    LET free == {k \in 1..Len(rooms) : rooms[k] \notin busy}
    IN  IF free = {} THEN DASH
        ELSE rooms[CHOOSE k \in free : \A j \in free : k >= j]

\* the for/break loop of place_subject: first listed room that is not busy
SelectRoom(rooms, busy) ==
    LET free == {k \in 1..Len(rooms) : rooms[k] \notin busy}
    IN  IF free = {} THEN DASH
        ELSE rooms[CHOOSE k \in free : \A j \in free : k <= j]

\* place_subject for a subject of the class (not FREE HOUR)
place_assigned(st, class_name, day, period, subject_name) ==
      LET subject_data == classes[class_name].subjects[subject_name]
          teacher == subject_data.teacher
          rooms == subject_data.rooms
          selected_room == SelectRoom(rooms, st.room_schedule[day][period])
      IN  IF selected_room = "" /\ rooms # <<>> THEN st
          ELSE [st EXCEPT
                  !.timetable[class_name][DayKey(day)][period] =
                      <<subject_name, teacher, selected_room>>,
                  !.teacher_schedule[day][period] =
                      IF teacher # "" THEN @ \cup {teacher} ELSE @,
                  !.room_schedule[day][period] =
                      IF selected_room # DASH THEN @ \cup {selected_room} ELSE @,
                  !.remaining_periods[class_name][subject_name] = @ - 1]

\* place_subject whose FREE HOUR branch overwrites the subject only
place_subject_free_keeps(st, class_name, day, period, subject_name) ==
    IF subject_name = FREE_HOUR
    THEN [st EXCEPT !.timetable[class_name][DayKey(day)][period] = <<FREE_HOUR, @[2], @[3]>>]
    ELSE place_assigned(st, class_name, day, period, subject_name)

place_subject(st, class_name, day, period, subject_name) ==
    IF subject_name = FREE_HOUR
    THEN [st EXCEPT !.timetable[class_name][DayKey(day)][period] = FreeSlot]
    ELSE place_assigned(st, class_name, day, period, subject_name)

\* remove_subject that forgets to restore the ledger
remove_subject_no_restore(st, class_name, day, period, subject_name) ==
    IF subject_name = FREE_HOUR THEN st
    ELSE
      LET slot == st.timetable[class_name][DayKey(day)][period]
      IN  [st EXCEPT
              !.teacher_schedule[day][period] = IF slot[2] # DASH THEN @ \ {slot[2]} ELSE @,
              !.room_schedule[day][period] = IF slot[3] # DASH THEN @ \ {slot[3]} ELSE @,
              !.timetable[class_name][DayKey(day)][period] = FreeSlot]

remove_subject(st, class_name, day, period, subject_name) ==
    IF subject_name = FREE_HOUR THEN st
    ELSE
      LET slot == st.timetable[class_name][DayKey(day)][period]
          teacher == slot[2]
          room == slot[3]
      IN  [st EXCEPT
              !.teacher_schedule[day][period] =
                  IF teacher # DASH THEN @ \ {teacher} ELSE @,
              !.room_schedule[day][period] =
                  IF room # DASH THEN @ \ {room} ELSE @,
              !.remaining_periods[class_name][subject_name] = @ + 1,
              !.timetable[class_name][DayKey(day)][period] = FreeSlot]

\* place_lab_continuous looking at the first slot of the block only
place_lab_continuous_check_first(st, class_name, day, start_period, subject_name, length) ==
    IF start_period + length > periods THEN FALSE
    ELSE can_place_subject(st, class_name, day, start_period, subject_name)

\* the checks of place_lab_continuous, all made before its first write
place_lab_continuous_check(st, class_name, day, start_period, subject_name, length) ==
    IF start_period + length > periods THEN FALSE
    ELSE \A offset \in 0..(length - 1) :
            can_place_subject(st, class_name, day, start_period + offset, subject_name)

remove_lab_continuous(st, class_name, day, start_period, subject_name, length) ==
    LET f[k \in 0..Max(length, 0)] ==
            IF k = 0 THEN st
            ELSE remove_subject(f[k - 1], class_name, day, start_period + k - 1, subject_name)
    IN  f[Max(length, 0)]

\* aggregate_teacher_schedules raises KeyError or IndexError when an occupied
\* slot of a timetable lies outside the days_ x periods_ table of its teacher
aggregate_raises(timetables, keys, periods_, days_) ==
    \E k \in 1..Len(keys) :
        LET tt == timetables[keys[k]]
        IN  \E dk \in DOMAIN tt : \E p \in DOMAIN tt[dk] :
               /\ tt[dk][p][1] # FREE_HOUR
               /\ tt[dk][p][2] # DASH
               /\ \/ dk \notin {DayKey(d) : d \in 1..days_}
                  \/ p >= periods_

\* aggregate_teacher_schedules(timetables, periods, days); keys is the order
\* of the keys of timetables, the order in which the loop visits the classes
aggregate_teacher_schedules(timetables, keys, periods_, days_) ==
    LET default == [dk \in {DayKey(d) : d \in 1..days_} |->
                       [p \in 0..(periods_ - 1) |-> FreeSlot]]
        \* the writes of one class into the map built so far
        write(teacher_map, c) ==
            LET tt == timetables[c]
                hit(dk, p, t) == tt[dk][p][1] # FREE_HOUR /\ tt[dk][p][2] # DASH
                                 /\ tt[dk][p][2] = t
                new == {t \in UNION {{tt[dk][p][2] : p \in DOMAIN tt[dk]} : dk \in DOMAIN tt} :
                           \E dk \in DOMAIN tt : \E p \in DOMAIN tt[dk] : hit(dk, p, t)}
            IN  [t \in DOMAIN teacher_map \cup new |->
                    [dk \in DOMAIN default |->
                        [p \in 0..(periods_ - 1) |->
                            IF dk \in DOMAIN tt /\ p \in DOMAIN tt[dk] /\ hit(dk, p, t)
                            THEN <<tt[dk][p][1], tt[dk][p][3], c>>
                            ELSE IF t \in DOMAIN teacher_map THEN teacher_map[t][dk][p]
                            ELSE default[dk][p]]]]
        agg[k \in 0..Len(keys)] ==
            IF k = 0 THEN [t \in {} |-> default] ELSE write(agg[k - 1], keys[k])
    IN  agg[Len(keys)]


\* ------------------------------------------------------------------- solver
\* total periods a class needs: the sort key of solve, negated there
TotalPeriods(c) ==
    LET ord == classes[c].order
        f[k \in 0..Len(ord)] ==
            IF k = 0 THEN 0
            ELSE f[k - 1] + credit_to_periods(classes[c].subjects[ord[k]].credit)
    IN  f[Len(ord)]

\* the sort key of solve without its minus sign: fewest periods first
ClassKeyLessAscending(a, b) == TotalPeriods(a) < TotalPeriods(b)

ClassKeyLess(a, b) == -TotalPeriods(a) < -TotalPeriods(b)

\* sorted(): stable insertion by the key alone
InsertByKey(x, s) ==
    LET later == {j \in 1..Len(s) : ClassKeyLess(x, s[j])}
        pos == IF later = {} THEN Len(s) + 1
               ELSE CHOOSE j \in later : \A k \in later : j <= k
    IN  SubSeq(s, 1, pos - 1) \o <<x>> \o SubSeq(s, pos, Len(s))

SortClasses ==
    LET srt[k \in 0..Len(class_keys)] ==
            IF k = 0 THEN <<>> ELSE InsertByKey(class_keys[k], srt[k - 1])
    IN  srt[Len(class_keys)]

Frame(d, p) == [day |-> d, period |-> p, cands |-> <<>>, i |-> 0]

Top == stack[Len(stack)]
Pop == SubSeq(stack, 1, Len(stack) - 1)
class_name == sorted_classes[idx]

SetState(st) ==
    /\ teacher_schedule' = st.teacher_schedule
    /\ room_schedule' = st.room_schedule
    /\ remaining_periods' = st.remaining_periods
    /\ timetable' = st.timetable

solver_vars == <<teacher_schedule, room_schedule, remaining_periods, timetable>>

\* TimetableSolver.__init__ on one input of a family
InitWith(inputs) ==
    /\ days \in 1..MaxDays
    /\ periods \in 1..MaxPeriods
    /\ \E inp \in inputs :
          /\ classes = inp.info
          /\ class_keys = inp.order
    /\ teacher_schedule = [d \in 1..days |-> [p \in 0..(periods - 1) |-> {}]]
    /\ room_schedule = [d \in 1..days |-> [p \in 0..(periods - 1) |-> {}]]
    /\ remaining_periods =
          [c \in DOMAIN classes |->
              [s \in DOMAIN classes[c].subjects |->
                  credit_to_periods(classes[c].subjects[s].credit)]]
    /\ timetable =
          [c \in DOMAIN classes |->
              [k \in {DayKey(d) : d \in 1..days} |->
                  [p \in 0..(periods - 1) |-> FreeSlot]]]
    /\ pc = "solve"
    /\ sorted_classes = <<>>
    /\ idx = 0
    /\ stack = <<>>
    /\ ret = None
    /\ lab_off = 0
    /\ progress = <<>>
    /\ result = None
    /\ lab_log = <<>>
    /\ NoApp

Init == InitWith(ClassesVariants)

InitCredit == InitWith(CreditVariants)

InitScenario == InitWith(ScenarioVariants)

\* solve: sorted(self.classes.keys(), key=...)
SolveSort ==
    /\ pc = "solve"
    /\ sorted_classes' = SortClasses
    /\ idx' = 1
    /\ pc' = "class"
    /\ UNCHANGED <<app_vars, input_vars, solver_vars, stack, ret, lab_off, progress, result, lab_log>>

\* solve: the loop calls solve_for_class, which calls backtrack(1, 0)
SolveForClass ==
    /\ pc = "class"
    /\ idx <= Len(sorted_classes)
    /\ stack' = <<Frame(1, 0)>>
    /\ ret' = None
    /\ pc' = "enter"
    /\ UNCHANGED <<app_vars, input_vars, solver_vars, sorted_classes, idx, lab_off, progress, result, lab_log>>

\* solve: the loop is over, return True
SolveReturnTrue ==
    /\ pc = "class"
    /\ idx > Len(sorted_classes)
    /\ result' = True
    /\ pc' = "done"
    /\ UNCHANGED <<app_vars, input_vars, solver_vars, sorted_classes, idx, stack, ret, lab_off, progress, lab_log>>

\* BacktrackEnter taking the subjects with periods left in whatever order an
\* unordered collection would give them
BacktrackEnterUnordered ==
    /\ pc = "enter"
    /\ IF Top.day > days
       THEN /\ ret' = True
            /\ stack' = Pop
            /\ pc' = "return"
       ELSE /\ \E cs \in {get_prioritized_subjects(SolverState, class_name),
                           [k \in 1..Len(get_prioritized_subjects(SolverState, class_name)) |->
                               get_prioritized_subjects(SolverState, class_name)[
                                   Len(get_prioritized_subjects(SolverState, class_name)) + 1 - k]]} :
                 stack' = [stack EXCEPT ![Len(stack)] =
                              [@ EXCEPT !.cands = Append(cs, FREE_HOUR), !.i = 1]]
            /\ pc' = "try"
            /\ ret' = ret
    /\ UNCHANGED <<app_vars, input_vars, solver_vars, sorted_classes, idx, lab_off, progress, result, lab_log>>

\* BacktrackEnter without "candidates.append('FREE HOUR')"
BacktrackEnterNoFree ==
    /\ pc = "enter"
    /\ IF Top.day > days
       THEN /\ ret' = True
            /\ stack' = Pop
            /\ pc' = "return"
       ELSE /\ stack' = [stack EXCEPT ![Len(stack)] =
                 [@ EXCEPT !.cands = get_prioritized_subjects(SolverState, class_name),
                           !.i = 1]]
            /\ pc' = "try"
            /\ ret' = ret
    /\ UNCHANGED <<app_vars, input_vars, solver_vars, sorted_classes, idx, lab_off, progress, result, lab_log>>

\* backtrack: the base case, or the candidate list of this slot
BacktrackEnter ==
    /\ pc = "enter"
    /\ IF Top.day > days
       THEN /\ ret' = True
            /\ stack' = Pop
            /\ pc' = "return"
       ELSE /\ stack' = [stack EXCEPT ![Len(stack)] =
                 [@ EXCEPT !.cands = Append(get_prioritized_subjects(SolverState, class_name),
                                            FREE_HOUR),
                           !.i = 1]]
            /\ pc' = "try"
            /\ ret' = ret
    /\ UNCHANGED <<app_vars, input_vars, solver_vars, sorted_classes, idx, lab_off, progress, result, lab_log>>

\* NextSlot leaving a day one period early
NextSlotEarly(f) ==
    IF f.period + 2 < periods THEN Frame(f.day, f.period + 1) ELSE Frame(f.day + 1, 0)

NextSlot(f) ==
    IF f.period + 1 < periods THEN Frame(f.day, f.period + 1) ELSE Frame(f.day + 1, 0)

IsLab(c, subject) ==
    subject # FREE_HOUR /\ classes[c].subjects[subject].lab

\* backtrack: one pass of "for subject in candidates", up to its recursive call
BacktrackTry ==
    /\ pc = "try"
    /\ LET f == Top
           c == class_name
           st == SolverState
       IN  IF f.i > Len(f.cands)
           THEN \* candidates exhausted: return False
                /\ ret' = False
                /\ stack' = Pop
                /\ pc' = "return"
                /\ UNCHANGED <<solver_vars, lab_off, lab_log>>
           ELSE
             LET subject == f.cands[f.i]
                 skip == /\ stack' = [stack EXCEPT ![Len(stack)].i = @ + 1]
                         /\ pc' = "try"
                         /\ UNCHANGED <<solver_vars, lab_off, ret, lab_log>>
             IN  IF subject # FREE_HOUR /\ remaining_periods[c][subject] <= 0
                 THEN skip
                 ELSE IF IsLab(c, subject)
                 THEN LET lab_length == classes[c].subjects[subject].lab_continuous
                      IN  IF place_lab_continuous_check(st, c, f.day, f.period, subject, lab_length)
                          THEN IF lab_length > 0
                               THEN /\ lab_off' = 0
                                    /\ pc' = "lab"
                                    /\ UNCHANGED <<solver_vars, stack, ret, lab_log>>
                               ELSE /\ stack' = Append(stack, NextSlot(f))
                                    /\ pc' = "enter"
                                    /\ lab_log' = Append(lab_log, <<c, subject, f.day, f.period>>)
                                    /\ UNCHANGED <<solver_vars, lab_off, ret>>
                          ELSE skip
                 ELSE IF ~can_place_subject(st, c, f.day, f.period, subject)
                 THEN skip
                 ELSE /\ SetState(place_subject(st, c, f.day, f.period, subject))
                      /\ stack' = Append(stack, NextSlot(f))
                      /\ pc' = "enter"
                      /\ UNCHANGED <<lab_off, ret, lab_log>>
    /\ UNCHANGED <<app_vars, input_vars, sorted_classes, idx, progress, result>>

\* place_lab_continuous: one pass of its second loop; after the last write
\* it returns True and backtrack recurses
PlaceLabStep ==
    /\ pc = "lab"
    /\ LET f == Top
           subject == f.cands[f.i]
           lab_length == classes[class_name].subjects[subject].lab_continuous
       IN  /\ SetState(place_subject(SolverState, class_name, f.day, f.period + lab_off, subject))
           /\ IF lab_off + 1 < lab_length
              THEN /\ lab_off' = lab_off + 1
                   /\ pc' = "lab"
                   /\ stack' = stack
                   /\ lab_log' = lab_log
              ELSE /\ lab_off' = 0
                   /\ stack' = Append(stack, NextSlot(f))
                   /\ pc' = "enter"
                   /\ lab_log' = Append(lab_log, <<class_name, subject, f.day, f.period>>)
    /\ UNCHANGED <<app_vars, input_vars, sorted_classes, idx, ret, progress, result>>

\* backtrack: a recursive call has returned to its caller's loop
BacktrackReturn ==
    /\ pc = "return"
    /\ stack # <<>>
    /\ LET f == Top
           c == class_name
           subject == f.cands[f.i]
       IN  IF ret = True
           THEN /\ stack' = Pop
                /\ pc' = "return"
                /\ UNCHANGED solver_vars
           ELSE /\ SetState(
                     IF IsLab(c, subject)
                     THEN remove_lab_continuous(SolverState, c, f.day, f.period, subject,
                              classes[c].subjects[subject].lab_continuous)
                     ELSE remove_subject(SolverState, c, f.day, f.period, subject))
                /\ stack' = [stack EXCEPT ![Len(stack)].i = @ + 1]
                /\ pc' = "try"
    /\ UNCHANGED <<app_vars, input_vars, sorted_classes, idx, ret, lab_off, progress, result, lab_log>>

\* SolveAfterClass passing enumerate's idx to the callback, not idx + 1
SolveAfterClassZeroBased ==
    /\ pc = "return"
    /\ stack = <<>>
    /\ progress' = Append(progress, <<idx - 1, Len(sorted_classes), class_name, ret>>)
    /\ IF ret = False
       THEN /\ result' = False
            /\ pc' = "done"
            /\ idx' = idx
       ELSE /\ idx' = idx + 1
            /\ pc' = "class"
            /\ result' = result
    /\ UNCHANGED <<app_vars, input_vars, solver_vars, sorted_classes, stack, ret, lab_off, lab_log>>

\* solve: solve_for_class has returned; the callback, then stop or go on
SolveAfterClass ==
    /\ pc = "return"
    /\ stack = <<>>
    /\ progress' = Append(progress, <<idx, Len(sorted_classes), class_name, ret>>)
    /\ IF ret = False
       THEN /\ result' = False
            /\ pc' = "done"
            /\ idx' = idx
       ELSE /\ idx' = idx + 1
            /\ pc' = "class"
            /\ result' = result
    /\ UNCHANGED <<app_vars, input_vars, solver_vars, sorted_classes, stack, ret, lab_off, lab_log>>

Next ==
    \/ SolveSort
    \/ SolveForClass
    \/ SolveReturnTrue
    \/ BacktrackEnter
    \/ BacktrackTry
    \/ PlaceLabStep
    \/ BacktrackReturn
    \/ SolveAfterClass

Spec == Init /\ [][Next]_vars

\* solve run to its end: a call that has started takes its next step
SpecLive == Spec /\ WF_vars(Next)

\* the same solver on the inputs of CreditVariants
SpecCredit == InitCredit /\ [][Next]_vars

\* the same solver on the inputs of ScenarioVariants
SpecScenario == InitScenario /\ [][Next]_vars


\* -------------------------------------------------------------- application
\* the classes the user can have in the application: none, or class A with
\* the lab Lab
AppClassesVariants ==
    {v \in ScenarioVariants : v.order = <<"A">> /\ v.info["A"].order = <<"Lab">>}
        \cup {EmptyDict}

\* TimetableApp.__init__: no timetables, no solver thread; the classes are
\* what load_data finds; no TimetableSolver exists yet
InitApp ==
    /\ \E v \in AppClassesVariants :
          state = [classes |-> v, days |-> 1, periods |-> 1,
                   timetables |-> EmptyDict, teacher_schedules |-> <<>>]
    /\ solver_thread = "none"
    /\ alive_threads = 0
    /\ copy = "none"
    /\ ui = "idle"
    /\ status = ""
    /\ called_with = EmptyDict
    /\ classes = <<>>
    /\ class_keys = <<>>
    /\ days = 0
    /\ periods = 0
    /\ teacher_schedule = <<>>
    /\ room_schedule = <<>>
    /\ remaining_periods = <<>>
    /\ timetable = <<>>
    /\ pc = "idle"
    /\ sorted_classes = <<>>
    /\ idx = 0
    /\ stack = <<>>
    /\ ret = None
    /\ lab_off = 0
    /\ progress = <<>>
    /\ result = None
    /\ lab_log = <<>>

all_solver_vars == <<input_vars, solver_vars, pc, sorted_classes, idx, stack, ret, lab_off,
                     progress, result, lab_log>>

\* self.solver_thread and self.solver_thread.is_alive()
IsAlive == solver_thread \notin {"none", "dead"}

\* generate_timetables without its test of the running thread
GenerateTimetablesUnguarded ==
    /\ ui = "idle"
    /\ \E d \in 1..MaxAppDays : \E p \in 1..MaxAppPeriods :
          IF state.classes.order = <<>>
          THEN /\ status' = "No Data"
               /\ UNCHANGED <<state, solver_thread, alive_threads, called_with>>
          ELSE /\ state' = [state EXCEPT !.days = d, !.periods = p]
               /\ status' = "Starting"
               /\ solver_thread' = "started"
               /\ alive_threads' = alive_threads + 1
               /\ called_with' = state.classes
    /\ UNCHANGED <<copy, ui, all_solver_vars>>

\* generate_timetables, a handler of the UI thread; d and p are what the
\* spinboxes hold
GenerateTimetables ==
    /\ ui = "idle"
    /\ \E d \in 1..MaxAppDays : \E p \in 1..MaxAppPeriods :
          IF state.classes.order = <<>>
          THEN /\ status' = "No Data"
               /\ UNCHANGED <<state, solver_thread, alive_threads, called_with>>
          ELSE IF IsAlive
          THEN /\ status' = "Busy"
               /\ UNCHANGED <<state, solver_thread, alive_threads, called_with>>
          ELSE /\ state' = [state EXCEPT !.days = d, !.periods = p]
               /\ status' = "Starting"
               /\ solver_thread' = "started"
               /\ alive_threads' = alive_threads + 1
               /\ called_with' = state.classes
    /\ UNCHANGED <<copy, ui, all_solver_vars>>

\* add_class, delete_class, add_subject, edit_subject, delete_subject and
\* load_data: handlers of the UI thread that change state['classes']; a
\* deepcopy that is running at that moment is raced
EditClasses ==
    /\ ui = "idle"
    /\ \E v \in AppClassesVariants \ {state.classes} :
          state' = [state EXCEPT !.classes = v]
    /\ copy' = IF solver_thread = "copying" THEN [copy EXCEPT !.raced = TRUE] ELSE copy
    /\ status' = "Edited"
    /\ UNCHANGED <<solver_thread, alive_threads, ui, called_with, all_solver_vars>>

\* import_json, a handler of the UI thread: replaces state['classes'] and,
\* when the file has a config, state['days'] and state['periods']
ImportJson ==
    /\ ui = "idle"
    /\ \E v \in AppClassesVariants : \E config \in BOOLEAN :
       \E d \in 1..MaxAppDays : \E p \in 1..MaxAppPeriods :
          state' = [state EXCEPT !.classes = v,
                                 !.days = IF config THEN d ELSE @,
                                 !.periods = IF config THEN p ELSE @]
    /\ copy' = IF solver_thread = "copying" THEN [copy EXCEPT !.raced = TRUE] ELSE copy
    /\ status' = "Imported"
    /\ UNCHANGED <<solver_thread, alive_threads, ui, called_with, all_solver_vars>>

\* clear_timetables, confirmed by the user: its first assignment
ClearTimetablesBegin ==
    /\ ui = "idle"
    /\ state' = [state EXCEPT !.timetables = EmptyDict]
    /\ ui' = "clearing"
    /\ UNCHANGED <<solver_thread, alive_threads, copy, status, called_with, all_solver_vars>>

\* clear_timetables: its second assignment and the status line
ClearTimetablesEnd ==
    /\ ui = "clearing"
    /\ state' = [state EXCEPT !.teacher_schedules = <<>>]
    /\ ui' = "idle"
    /\ status' = "Timetables cleared"
    /\ UNCHANGED <<solver_thread, alive_threads, copy, called_with, all_solver_vars>>

\* run_solver, first step of the thread: deepcopy(self.state['classes']) begins
RunSolverCopy ==
    /\ solver_thread = "started"
    /\ copy' = [src |-> state.classes, raced |-> FALSE]
    /\ solver_thread' = "copying"
    /\ UNCHANGED <<state, alive_threads, ui, status, called_with, all_solver_vars>>

\* TimetableSolver.__init__ with the arguments run_solver passes
NewTimetableSolver(inp, d, p) ==
    /\ classes' = inp.info
    /\ class_keys' = inp.order
    /\ days' = d
    /\ periods' = p
    /\ teacher_schedule' = [dd \in 1..d |-> [pp \in 0..(p - 1) |-> {}]]
    /\ room_schedule' = [dd \in 1..d |-> [pp \in 0..(p - 1) |-> {}]]
    /\ remaining_periods' =
          [c \in DOMAIN inp.info |->
              [s \in DOMAIN inp.info[c].subjects |->
                  credit_to_periods(inp.info[c].subjects[s].credit)]]
    /\ timetable' =
          [c \in DOMAIN inp.info |->
              [k \in {DayKey(dd) : dd \in 1..d} |-> [pp \in 0..(p - 1) |-> FreeSlot]]]
    /\ pc' = "solve"
    /\ sorted_classes' = <<>>
    /\ idx' = 0
    /\ stack' = <<>>
    /\ ret' = None
    /\ lab_off' = 0
    /\ progress' = <<>>
    /\ result' = None
    /\ lab_log' = <<>>

\* run_solver: the deepcopy ends and the solver is constructed. A copy that
\* no edit raced is the dict as it was; a raced copy is the dict before the
\* edit, the dict after it, or a RuntimeError that run_solver catches
RunSolverConstruct ==
    /\ solver_thread = "copying"
    /\ \E outcome \in (IF copy.raced THEN {"old", "new", "error"} ELSE {"old"}) :
          IF outcome = "error"
          THEN /\ status' = "Error"
               /\ solver_thread' = "dead"
               /\ alive_threads' = alive_threads - 1
               /\ called_with' = EmptyDict
               /\ UNCHANGED all_solver_vars
          ELSE /\ NewTimetableSolver(IF outcome = "old" THEN copy.src ELSE state.classes,
                                      state.days, state.periods)
               /\ solver_thread' = "running"
               /\ UNCHANGED <<alive_threads, status, called_with>>
    /\ copy' = "none"
    /\ UNCHANGED <<state, ui>>

\* run_solver: solve has returned; self.state['timetables'] = solver.timetable
RunSolverPublishTimetables ==
    /\ solver_thread = "running"
    /\ pc = "done"
    /\ IF result = True
       THEN /\ state' = [state EXCEPT !.timetables = [order |-> class_keys, info |-> timetable]]
            /\ solver_thread' = "published"
            /\ status' = status
       ELSE /\ status' = "Failed"
            /\ solver_thread' = "notifying"
            /\ state' = state
    /\ UNCHANGED <<alive_threads, copy, ui, called_with, all_solver_vars>>

\* run_solver: self.state['teacher_schedules'] = aggregate_teacher_schedules(...),
\* with the periods and days the state holds now; an exception of the
\* aggregation is caught by run_solver
RunSolverPublishTeachers ==
    /\ solver_thread = "published"
    /\ IF aggregate_raises(timetable, class_keys, state.periods, state.days)
       THEN /\ state' = state
            /\ status' = "Error"
       ELSE /\ state' = [state EXCEPT !.teacher_schedules =
                            aggregate_teacher_schedules(timetable, class_keys,
                                                        state.periods, state.days)]
            /\ status' = "Success"
    /\ solver_thread' = "notifying"
    /\ UNCHANGED <<alive_threads, copy, ui, called_with, all_solver_vars>>

\* run_solver returns: its local solver is gone with it
DropSolver ==
    /\ classes' = <<>>
    /\ class_keys' = <<>>
    /\ days' = 0
    /\ periods' = 0
    /\ teacher_schedule' = <<>>
    /\ room_schedule' = <<>>
    /\ remaining_periods' = <<>>
    /\ timetable' = <<>>
    /\ pc' = "idle"
    /\ sorted_classes' = <<>>
    /\ idx' = 0
    /\ stack' = <<>>
    /\ ret' = None
    /\ lab_off' = 0
    /\ progress' = <<>>
    /\ result' = None
    /\ lab_log' = <<>>

\* run_solver: the message box is dismissed and the thread ends
RunSolverExit ==
    /\ solver_thread = "notifying"
    /\ solver_thread' = "dead"
    /\ alive_threads' = alive_threads - 1
    /\ called_with' = EmptyDict
    /\ DropSolver
    /\ UNCHANGED <<state, copy, ui, status>>

NextApp ==
    \/ GenerateTimetables
    \/ EditClasses
    \/ ImportJson
    \/ ClearTimetablesBegin
    \/ ClearTimetablesEnd
    \/ RunSolverCopy
    \/ RunSolverConstruct
    \/ SolveSort
    \/ SolveForClass
    \/ SolveReturnTrue
    \/ BacktrackEnter
    \/ BacktrackTry
    \/ PlaceLabStep
    \/ BacktrackReturn
    \/ SolveAfterClass
    \/ RunSolverPublishTimetables
    \/ RunSolverPublishTeachers
    \/ RunSolverExit

\* the application: the UI thread's handlers and the solver thread, interleaved
SpecApp == InitApp /\ [][NextApp]_vars


\* =============================================================== properties
Classes == DOMAIN classes
Subjects(c) == DOMAIN classes[c].subjects
Days == 1..days
Periods == 0..(periods - 1)
Slot(c, d, p) == timetable[c][DayKey(d)][p]
Done == pc = "done"

\* C1: at every (day, period), a non-empty teacher is the teacher of at most
\* one assigned (non-FREE-HOUR) slot over all the classes' timetables, in
\* every state of solve, the states between the writes of a lab block included.
C1_TeacherOncePerSlot ==
    \A d \in Days, p \in Periods :
        \A c1 \in Classes, c2 \in Classes :
            (/\ Slot(c1, d, p)[1] # FREE_HOUR
             /\ Slot(c2, d, p)[1] # FREE_HOUR
             /\ Slot(c1, d, p)[2] # ""
             /\ Slot(c1, d, p)[2] = Slot(c2, d, p)[2]) => c1 = c2

\* C1 at work: solve is over, one class holds teacher t at (d, p) and another
\* class has a subject of teacher t still to place and a free hour there.
C1_Witness ==
    /\ Done
    /\ \E d \in Days, p \in Periods, c1 \in Classes, c2 \in Classes :
          /\ c1 # c2
          /\ Slot(c1, d, p)[1] # FREE_HOUR
          /\ Slot(c2, d, p) = FreeSlot
          /\ \E s \in Subjects(c2) :
                /\ classes[c2].subjects[s].teacher = Slot(c1, d, p)[2]
                /\ classes[c2].subjects[s].teacher # ""
                /\ remaining_periods[c2][s] > 0
                /\ \A q \in Periods : Slot(c2, d, q)[1] # s

\* C2: at every (day, period), a room other than "-" is the room of at most
\* one assigned (non-FREE-HOUR) slot over all the classes' timetables.
C2_RoomOncePerSlot ==
    \A d \in Days, p \in Periods :
        \A c1 \in Classes, c2 \in Classes :
            (/\ Slot(c1, d, p)[1] # FREE_HOUR
             /\ Slot(c2, d, p)[1] # FREE_HOUR
             /\ Slot(c1, d, p)[3] # DASH
             /\ Slot(c1, d, p)[3] = Slot(c2, d, p)[3]) => c1 = c2

\* C2 at work: two classes are assigned at the same (day, period), the
\* second one in a room that is not the first of its list because the first
\* was taken by the other class.
C2_Witness ==
    \E d \in Days, p \in Periods, c1 \in Classes, c2 \in Classes :
        /\ c1 # c2
        /\ Slot(c1, d, p)[1] # FREE_HOUR
        /\ Slot(c2, d, p)[1] # FREE_HOUR
        /\ LET rooms == classes[c2].subjects[Slot(c2, d, p)[1]].rooms
           IN  /\ Len(rooms) > 1
               /\ rooms[1] = Slot(c1, d, p)[3]
               /\ Slot(c2, d, p)[3] = rooms[2]


\* every lab of the input has 1 <= lab_continuous <= periods
ValidLabs ==
    \A c \in Classes : \A s \in Subjects(c) :
        classes[c].subjects[s].lab =>
            (1 <= classes[c].subjects[s].lab_continuous
             /\ classes[c].subjects[s].lab_continuous <= periods)

PeriodsOf(c, d, s) == {p \in Periods : Slot(c, d, p)[1] = s}
Contiguous(P) == \A p \in P, q \in P : \A r \in p..q : r \in P

\* C3: after a successful solve on input with valid labs, the periods of a
\* day that hold a subject are none, or a contiguous range of length 1 for a
\* regular subject and of length lab_continuous for a lab.
C3_BlockLengths ==
    (Done /\ result = True /\ ValidLabs) =>
        \A c \in Classes, d \in Days : \A s \in Subjects(c) :
            LET P == PeriodsOf(c, d, s)
            IN  \/ P = {}
                \/ /\ Contiguous(P)
                   /\ Cardinality(P) = IF classes[c].subjects[s].lab
                                       THEN classes[c].subjects[s].lab_continuous
                                       ELSE 1

\* C4: when the cursor of backtrack is on a slot that a lab block has already
\* filled, no step changes that slot (the solver only advances).
C4_FilledSlotKept ==
    [][(pc = "try" /\ Slot(class_name, Top.day, Top.period) # FreeSlot) =>
          timetable'[class_name][DayKey(Top.day)][Top.period]
              = Slot(class_name, Top.day, Top.period)]_vars

SubjectsAndFree(c) == Subjects(c) \cup {FREE_HOUR}

PlaceThenRemove(c, d, p, s) ==
    remove_subject(place_subject(SolverState, c, d, p, s), c, d, p, s)

C6_LedgerNonNegative ==
    \A c \in Classes : \A s \in Subjects(c) : remaining_periods[c][s] >= 0

\* C7: a slot that holds a subject of the morning set has period < mid, a
\* slot that holds a subject of the afternoon set has period >= mid, with
\* mid = periods div 2.
C7_Preferences ==
    \A c \in Classes, d \in Days, p \in Periods :
        /\ Slot(c, d, p)[1] \in classes[c].morning => p < periods \div 2
        /\ Slot(c, d, p)[1] \in classes[c].afternoon => p >= periods \div 2

\* C7 at work: solve is over; a lab of the afternoon set, first candidate at
\* every slot, was refused in the morning half and sits at a period >= mid,
\* and a subject of the morning set sits at period 0 of the same day.
C7_Witness ==
    /\ Done
    /\ \E c \in Classes, d \in Days, p \in Periods :
          /\ Slot(c, d, 0)[1] \in classes[c].morning
          /\ Slot(c, d, p)[1] \in classes[c].afternoon
          /\ classes[c].subjects[Slot(c, d, p)[1]].lab

\* C8: a slot that holds a subject with a non-empty room list has a room of
\* that list.
C8_RoomFromList ==
    \A c \in Classes, d \in Days, p \in Periods :
        LET s == Slot(c, d, p)[1]
        IN  (s # FREE_HOUR /\ classes[c].subjects[s].rooms # <<>>) =>
                \E k \in 1..Len(classes[c].subjects[s].rooms) :
                    Slot(c, d, p)[3] = classes[c].subjects[s].rooms[k]

\* C8 at work: solve is over, a subject sits in the second room of its list,
\* and a subject with a room list was refused where its only room was busy.
C8_Witness ==
    /\ Done
    /\ \E c \in Classes, d \in Days, p \in Periods :
          LET s == Slot(c, d, p)[1]
          IN  /\ s # FREE_HOUR
              /\ Len(classes[c].subjects[s].rooms) > 1
              /\ Slot(c, d, p)[3] = classes[c].subjects[s].rooms[2]
    /\ \E c \in Classes, d \in Days, p \in Periods : \E s \in Subjects(c) :
          /\ Slot(c, d, p) = FreeSlot
          /\ classes[c].subjects[s].rooms # <<>>
          /\ \A k \in 1..Len(classes[c].subjects[s].rooms) :
                classes[c].subjects[s].rooms[k] \in room_schedule[d][p]
          /\ classes[c].subjects[s].teacher \notin teacher_schedule[d][p]

\* C9: every class has a timetable with exactly the day keys Day 1 .. Day
\* days, each a list of exactly `periods` triples, and a slot whose subject
\* is FREE HOUR has teacher "-" and room "-".
C9_TimetableShape ==
    /\ DOMAIN timetable = Classes
    /\ \A c \in Classes :
          /\ DOMAIN timetable[c] = {DayKey(d) : d \in 1..days}
          /\ \A k \in DOMAIN timetable[c] :
                /\ DOMAIN timetable[c][k] = 0..(periods - 1)
                /\ \A p \in DOMAIN timetable[c][k] :
                      /\ Len(timetable[c][k][p]) = 3
                      /\ timetable[c][k][p][1] = FREE_HOUR =>
                            (timetable[c][k][p][2] = DASH /\ timetable[c][k][p][3] = DASH)

\* C9 at work: a FREE HOUR has been written over a slot of a lab block, whose
\* teacher is still in the teacher table of that slot.
C9_Witness ==
    \E c \in Classes, d \in Days, p \in Periods : \E s \in Subjects(c) :
        /\ Slot(c, d, p) = FreeSlot
        /\ classes[c].subjects[s].lab
        /\ p > 0
        /\ Slot(c, d, p - 1)[1] = s
        /\ classes[c].subjects[s].teacher \in teacher_schedule[d][p]
        /\ Classes = {c}

\* C10: can_place_subject is true exactly for FREE HOUR and for a subject
\* whose teacher is empty or not in the teacher table at the slot, whose room
\* list is empty or has a room not in the room table at the slot, that no
\* slot of the class holds on that day, and whose morning / afternoon
\* membership agrees with the period.
C10_CanPlaceIff ==
    \A c \in Classes, d \in Days, p \in Periods : \A s \in SubjectsAndFree(c) :
        can_place_subject(SolverState, c, d, p, s) <=>
            \/ s = FREE_HOUR
            \/ LET sd == classes[c].subjects[s]
               IN  /\ sd.teacher = "" \/ sd.teacher \notin teacher_schedule[d][p]
                   /\ sd.rooms = <<>>
                        \/ \E k \in 1..Len(sd.rooms) : sd.rooms[k] \notin room_schedule[d][p]
                   /\ \A q \in Periods : Slot(c, d, q)[1] # s
                   /\ s \in classes[c].morning => p < periods \div 2
                   /\ s \in classes[c].afternoon => p >= periods \div 2

\* C10 at work: the candidate under the cursor is refused only because the
\* class already holds it on that day, while another candidate is accepted.
C10_Witness ==
    /\ pc = "try"
    /\ Top.i <= Len(Top.cands)
    /\ LET s == Top.cands[Top.i]
           sd == classes[class_name].subjects[s]
       IN  /\ s # FREE_HOUR
           /\ ~can_place_subject(SolverState, class_name, Top.day, Top.period, s)
           /\ sd.teacher \notin teacher_schedule[Top.day][Top.period]
           /\ \E k \in 1..Len(sd.rooms) : sd.rooms[k] \notin room_schedule[Top.day][Top.period]
           /\ s \notin classes[class_name].morning \cup classes[class_name].afternoon
           /\ \E s2 \in Subjects(class_name) :
                 /\ s2 # s
                 /\ can_place_subject(SolverState, class_name, Top.day, Top.period, s2)


\* ---------------------------------------------------------------------- C11
\* r is the first room of the list, in list order, that is not busy
FirstFreeRoom(rooms, busy, r) ==
    IF rooms = <<>> THEN r = DASH
    ELSE \E k \in 1..Len(rooms) :
            /\ rooms[k] = r
            /\ r \notin busy
            /\ \A j \in 1..(k - 1) : rooms[j] \in busy

\* what one call place_subject(c, d, p, s) does to the four tables
PlaceEffect(c, d, p, s) ==
    IF s = FREE_HOUR
    THEN /\ timetable' = [timetable EXCEPT ![c][DayKey(d)][p] = FreeSlot]
         /\ UNCHANGED <<teacher_schedule, room_schedule, remaining_periods>>
    ELSE LET sd == classes[c].subjects[s]
             new == timetable'[c][DayKey(d)][p]
         IN  /\ new[1] = s
             /\ new[2] = sd.teacher
             /\ FirstFreeRoom(sd.rooms, room_schedule[d][p], new[3])
             /\ timetable' = [timetable EXCEPT ![c][DayKey(d)][p] = new]
             /\ teacher_schedule' =
                    IF sd.teacher # ""
                    THEN [teacher_schedule EXCEPT ![d][p] = @ \cup {sd.teacher}]
                    ELSE teacher_schedule
             /\ room_schedule' =
                    IF new[3] # DASH
                    THEN [room_schedule EXCEPT ![d][p] = @ \cup {new[3]}]
                    ELSE room_schedule
             /\ remaining_periods' =
                    [remaining_periods EXCEPT ![c][s] = remaining_periods[c][s] - 1]

\* the step is a call of place_subject made by backtrack itself
PlacesAtCursor ==
    /\ pc = "try"
    /\ pc' = "enter"
    /\ ~IsLab(class_name, Top.cands[Top.i])

\* C11: every call of place_subject made after can_place_subject accepted
\* the subject writes (subject, teacher, first free listed room or "-" for an
\* empty list) into the slot, adds the non-empty teacher and the room other
\* than "-" to the tables at that slot only, takes exactly 1 from that
\* subject's ledger and changes nothing else; for FREE HOUR it writes
\* (FREE HOUR, -, -) and leaves the tables and the ledger alone.
C11_PlaceSubjectEffect ==
    [][/\ PlacesAtCursor =>
            PlaceEffect(class_name, Top.day, Top.period, Top.cands[Top.i])
       /\ pc = "lab" =>
            PlaceEffect(class_name, Top.day, Top.period + lab_off, Top.cands[Top.i])
       /\ (PlacesAtCursor \/ pc = "lab") => UNCHANGED input_vars]_vars

\* a subject was given its second listed room because the first was busy, its
\* teacher and room are in the tables, and the solve wrote FREE HOUR elsewhere
C11_Witness ==
    \E c \in Classes : \E s \in Subjects(c) : \E d \in Days : \E p \in Periods :
        LET sd == classes[c].subjects[s]
        IN  /\ Len(sd.rooms) >= 2
            /\ Slot(c, d, p) = <<s, sd.teacher, sd.rooms[2]>>
            /\ sd.rooms[1] \in room_schedule[d][p]
            /\ sd.rooms[2] \in room_schedule[d][p]
            /\ sd.teacher \in teacher_schedule[d][p]
            /\ remaining_periods[c][s] < credit_to_periods(sd.credit)
            /\ Done
            /\ \E q \in Periods : q # p /\ Slot(c, d, q) = FreeSlot


\* ---------------------------------------------------------------------- C12
\* the step is a call of place_lab_continuous by backtrack
CallsPlaceLab ==
    /\ pc = "try"
    /\ Top.i <= Len(Top.cands)
    /\ IsLab(class_name, Top.cands[Top.i])
    /\ remaining_periods[class_name][Top.cands[Top.i]] > 0

LabLength == classes[class_name].subjects[Top.cands[Top.i]].lab_continuous

\* C12: place_lab_continuous(c, d, start, s, length) succeeds exactly when
\* start + length <= periods and can_place_subject holds, in the state before
\* any write, at each of the slots start .. start + length - 1; when it fails
\* the four tables are unchanged; when it has returned true the periods of
\* day d that hold s are exactly start .. start + length - 1.
C12_PlaceLabContinuous ==
    [][/\ CallsPlaceLab =>
            /\ pc' # "try" <=>
                  /\ Top.period + LabLength <= periods
                  /\ \A k \in 0..(LabLength - 1) :
                        can_place_subject(SolverState, class_name, Top.day,
                                          Top.period + k, Top.cands[Top.i])
            /\ pc' = "try" => UNCHANGED solver_vars
       /\ (pc' = "enter" /\ (pc = "lab" \/ CallsPlaceLab)) =>
            {p \in Periods : timetable'[class_name][DayKey(Top.day)][p][1] = Top.cands[Top.i]}
                = Top.period..(Top.period + LabLength - 1)]_vars

\* a block of two periods has just been written at a period where it fits,
\* after place_lab_continuous had refused the period before it
C12_Witness ==
    /\ pc = "enter"
    /\ Len(stack) >= 2
    /\ LET f == stack[Len(stack) - 1]
           s == f.cands[f.i]
       IN  /\ IsLab(class_name, s)
           /\ classes[class_name].subjects[s].lab_continuous >= 2
           /\ f.period >= 1
           /\ Slot(class_name, f.day, f.period - 1) = FreeSlot
           /\ PeriodsOf(class_name, f.day, s)
                 = f.period..(f.period + classes[class_name].subjects[s].lab_continuous - 1)


\* ---------------------------------------------------------------------- C13
\* the successful place_lab_continuous calls for subject s of class c
BlocksOf(c, s) == {k \in 1..Len(lab_log) : lab_log[k][1] = c /\ lab_log[k][2] = s}

CeilDiv(n, l) == (n + l - 1) \div l

\* writes of a block of s in class c that is being written right now
WritesInProgress(c, s) ==
    IF pc = "lab" /\ class_name = c /\ Top.cands[Top.i] = s THEN lab_off ELSE 0

\* C13: for a lab subject with block length L >= 1 and N = credit_to_periods
\* of its credit, at most ceil(N / L) blocks are placed over a solve, every
\* placed block has taken exactly L from the subject's ledger, and no two
\* blocks of the subject are on the same day.
C13_LabBlockCount ==
    \A c \in Classes : \A s \in Subjects(c) :
        LET sd == classes[c].subjects[s]
            N == credit_to_periods(sd.credit)
            L == sd.lab_continuous
            B == BlocksOf(c, s)
        IN  (sd.lab /\ L >= 1) =>
              /\ Cardinality(B) <= CeilDiv(N, L)
              /\ remaining_periods[c][s] = N - L * Cardinality(B) - WritesInProgress(c, s)
              /\ \A j \in B : \A k \in B : j # k => lab_log[j][3] # lab_log[k][3]

\* a finished solve in which a lab got its ceil(N / L) blocks on fewer days
\* than there are: on the days left the empty ledger kept it out
C13_Witness ==
    /\ Done
    /\ \E c \in Classes : \E s \in Subjects(c) :
          LET sd == classes[c].subjects[s]
          IN  /\ sd.lab
              /\ sd.lab_continuous >= 1
              /\ Cardinality(BlocksOf(c, s))
                    = CeilDiv(credit_to_periods(sd.credit), sd.lab_continuous)
              /\ Cardinality(BlocksOf(c, s)) < days
              /\ remaining_periods[c][s] <= 0


\* ---------------------------------------------------------------------- C16
\* the mapping as the documentation of credit_to_periods tabulates it
PeriodsTable(c) ==
    IF c = 1 THEN 3
    ELSE IF c = 3 THEN 5
    ELSE IF c = 4 THEN 7
    ELSE IF 2 * c >= 1 THEN 2 * c ELSE 1

IndexIn(seq, x) == CHOOSE k \in 1..Len(seq) : seq[k] = x

\* sorted_classes holds every class once and the classes solved so far were
\* solved in its order
ProcessingOrder ==
    /\ Len(sorted_classes) = Len(class_keys)
    /\ {sorted_classes[k] : k \in 1..Len(sorted_classes)} = Classes
    /\ Len(progress) <= Len(sorted_classes)
    /\ \A k \in 1..Len(progress) : progress[k][3] = sorted_classes[k]

\* C14 as stated: classes are solved by descending total of required
\* periods, classes of equal total in ascending order of their names.
C14_TiesByName ==
    pc # "solve" =>
      /\ ProcessingOrder
      /\ \A i \in 1..Len(sorted_classes) : \A j \in 1..Len(sorted_classes) :
            i < j =>
              \/ TotalPeriods(sorted_classes[i]) > TotalPeriods(sorted_classes[j])
              \/ /\ TotalPeriods(sorted_classes[i]) = TotalPeriods(sorted_classes[j])
                 /\ NameRank(sorted_classes[i]) < NameRank(sorted_classes[j])

\* C14 as the code has it: classes are solved by descending total of required
\* periods, classes of equal total in the order of the keys of the input dict.
C14_TiesByInputOrder ==
    pc # "solve" =>
      /\ ProcessingOrder
      /\ \A i \in 1..Len(sorted_classes) : \A j \in 1..Len(sorted_classes) :
            i < j =>
              \/ TotalPeriods(sorted_classes[i]) > TotalPeriods(sorted_classes[j])
              \/ /\ TotalPeriods(sorted_classes[i]) = TotalPeriods(sorted_classes[j])
                 /\ IndexIn(class_keys, sorted_classes[i]) < IndexIn(class_keys, sorted_classes[j])

\* a finished solve of two classes of equal total given as B, A
C14_Witness ==
    /\ Done
    /\ class_keys = <<"B", "A">>
    /\ TotalPeriods("A") = TotalPeriods("B")
    /\ sorted_classes = <<"B", "A">>
    /\ Len(progress) = 2


\* ---------------------------------------------------------------------- C15
\* the candidates of the slot under the cursor, without the closing FREE HOUR
Candidates == SubSeq(Top.cands, 1, Len(Top.cands) - 1)

\* the candidate list is the subjects with periods left, each once, followed
\* by FREE HOUR, labs before regular subjects, more periods left first
CandidateOrder ==
    /\ Len(Top.cands) >= 1
    /\ Top.cands[Len(Top.cands)] = FREE_HOUR
    /\ {Candidates[k] : k \in 1..Len(Candidates)}
          = {s \in Subjects(class_name) : remaining_periods[class_name][s] > 0}
    /\ \A i \in 1..Len(Candidates) : \A j \in 1..Len(Candidates) :
          i < j =>
            /\ Candidates[i] # Candidates[j]
            /\ IsLab(class_name, Candidates[j]) => IsLab(class_name, Candidates[i])
            /\ (IsLab(class_name, Candidates[i]) <=> IsLab(class_name, Candidates[j])) =>
                  remaining_periods[class_name][Candidates[i]]
                      >= remaining_periods[class_name][Candidates[j]]

SameKey(a, b) ==
    /\ IsLab(class_name, a) <=> IsLab(class_name, b)
    /\ remaining_periods[class_name][a] = remaining_periods[class_name][b]

\* C15 as stated: at every slot the candidates are the subjects with periods
\* left, labs first, then by descending periods left, subjects of equal key
\* in the order of the input, and FREE HOUR last.
C15_TiesByInputOrder ==
    pc = "try" =>
      /\ CandidateOrder
      /\ \A i \in 1..Len(Candidates) : \A j \in 1..Len(Candidates) :
            (i < j /\ SameKey(Candidates[i], Candidates[j])) =>
               IndexIn(classes[class_name].order, Candidates[i])
                   < IndexIn(classes[class_name].order, Candidates[j])

\* C15 as the code has it: subjects of equal key come in ascending order of
\* their names.
C15_TiesByName ==
    pc = "try" =>
      /\ CandidateOrder
      /\ \A i \in 1..Len(Candidates) : \A j \in 1..Len(Candidates) :
            (i < j /\ SameKey(Candidates[i], Candidates[j])) =>
               NameRank(Candidates[i]) < NameRank(Candidates[j])

\* the cursor is on a slot whose candidates are Math, Phy, FREE HOUR, of a
\* class whose subjects were given as Phy, Math and have the same key
C15_Witness ==
    /\ pc = "try"
    /\ classes[class_name].order = <<"Phy", "Math">>
    /\ Top.cands = <<"Math", "Phy", FREE_HOUR>>
    /\ SameKey("Math", "Phy")


\* ---------------------------------------------------------------------- C17
\* C17: the callback is called once after each per-class solve, in processing
\* order, with (1-based index, number of classes, class name, success of that
\* class); no class is solved after one that failed, and then solve returns
\* False; when none fails solve returns True after the callback for the last
\* class.
C17_ProgressCallback ==
    LET n == Len(progress)
    IN  /\ pc = "solve" => n = 0
        /\ pc # "solve" =>
              /\ \A k \in 1..n :
                    /\ progress[k][4] \in {True, False}
                    /\ progress[k] = <<k, Len(sorted_classes), sorted_classes[k], progress[k][4]>>
              /\ \A k \in 1..(n - 1) : progress[k][4] = True
        /\ pc \in {"class", "enter", "try", "lab", "return"} => n = idx - 1
        /\ (pc \in {"class", "done"} /\ n >= 1) => progress[n][4] = ret
        /\ Done =>
              /\ result \in {True, False}
              /\ result = False <=> (n >= 1 /\ progress[n][4] = False)
              /\ result = True => n = Len(sorted_classes)

\* a finished solve of two classes: two calls, B then A, both successful
C17_Witness ==
    /\ Done
    /\ result = True
    /\ progress = <<<<1, 2, "B", True>>, <<2, 2, "A", True>>>>


\* ---------------------------------------------------------------------- C18
\* some lab of the input has a block longer than a day
LabLongerThanDay ==
    \E c \in Classes : \E s \in Subjects(c) :
        classes[c].subjects[s].lab /\ classes[c].subjects[s].lab_continuous > periods

\* C18: an input with a lab whose lab_continuous exceeds the periods of a
\* day is rejected before any placement: no class is solved, no callback is
\* made, and solve does not return a timetable as a success.
C18_LongLabRejected ==
    LabLongerThanDay =>
        /\ stack = <<>>
        /\ progress = <<>>
        /\ Done => result = False
        /\ \A c \in Classes : \A d \in Days : \A p \in Periods : Slot(c, d, p) = FreeSlot


\* ---------------------------------------------------------------------- C19
\* the teacher view run_solver computes from the timetables of a solve
TeacherSchedules == aggregate_teacher_schedules(timetable, class_keys, periods, days)

\* C19: after a successful solve, every slot of a class that holds a subject
\* (s, t, r), the subjects without a teacher included, is found as
\* (s, r, class) under teacher t at the same day and period of the teacher
\* view, and every entry of the view other than FREE HOUR comes from such a
\* slot.
C19_TeacherViewRoundTrip ==
    (Done /\ result = True) =>
        /\ \A c \in Classes : \A d \in Days : \A p \in Periods :
              Slot(c, d, p)[1] # FREE_HOUR =>
                  /\ Slot(c, d, p)[2] \in DOMAIN TeacherSchedules
                  /\ TeacherSchedules[Slot(c, d, p)[2]][DayKey(d)][p]
                        = <<Slot(c, d, p)[1], Slot(c, d, p)[3], c>>
        /\ \A t \in DOMAIN TeacherSchedules : \A d \in Days : \A p \in Periods :
              LET e == TeacherSchedules[t][DayKey(d)][p]
              IN  e[1] # FREE_HOUR =>
                      /\ e[3] \in Classes
                      /\ Slot(e[3], d, p) = <<e[1], t, e[2]>>


\* ---------------------------------------------------------------------- C20
\* C20: solve is deterministic: from any state a run is in, the step the run
\* takes is the only step there is, so two runs on the same input (the same
\* classes in the same order, days and periods) make the same placements in
\* the same order and end with the same timetables, ledgers and tables.
C20_Deterministic ==
    [][\A w \in {vars'} : ~ENABLED (Next /\ vars' # w)]_vars

\* a finished solve of two classes that placed a lab block and a subject in
\* its second listed room
C20_Witness ==
    /\ Done
    /\ result = True
    /\ Len(sorted_classes) = 2
    /\ Len(lab_log) >= 1
    /\ \E c \in Classes : \E d \in Days : \E p \in Periods : Slot(c, d, p)[3] = "R2"


\* ---------------------------------------------------------------------- C21
\* the input of scenario 1: class A, subject Math, one day of three periods
Scenario1 ==
    /\ class_keys = <<"A">>
    /\ classes["A"].order = <<"Math">>
    /\ days = 1
    /\ periods = 3

\* C21 as stated: on the input of scenario 1 solve succeeds and Day 1 of A
\* holds (Math, T1, R1) in all three slots.
C21_MathInAllSlots ==
    (Scenario1 /\ Done) =>
        /\ result = True
        /\ \A p \in 0..2 : Slot("A", 1, p) = <<"Math", "T1", "R1">>

\* C21 as the code has it: on the input of scenario 1 solve succeeds, Day 1 of
\* A holds (Math, T1, R1) in its first slot and FREE HOUR in the other two,
\* and 2 of the 3 periods of Math are left in the ledger.
C21_MathOncePerDay ==
    (Scenario1 /\ Done) =>
        /\ result = True
        /\ Slot("A", 1, 0) = <<"Math", "T1", "R1">>
        /\ Slot("A", 1, 1) = FreeSlot
        /\ Slot("A", 1, 2) = FreeSlot
        /\ remaining_periods["A"]["Math"] = 2

\* the solve of scenario 1 has finished
C21_Witness == Scenario1 /\ Done /\ Len(progress) = 1


\* ---------------------------------------------------------------------- C22
\* the input of scenario 3: class A, lab Lab in blocks of 2, two days of four
Scenario3 ==
    /\ class_keys = <<"A">>
    /\ classes["A"].order = <<"Lab">>
    /\ days = 2
    /\ periods = 4

\* C22: on the input of scenario 3 solve succeeds, each of the two days holds
\* one block of 2 consecutive periods of (Lab, T, R), 4 Lab slots in all, and
\* the ledger entry of Lab ends at -1.
C22_TwoBlocksOfTwo ==
    (Scenario3 /\ Done) =>
        /\ result = True
        /\ \A d \in 1..2 :
              /\ Cardinality(PeriodsOf("A", d, "Lab")) = 2
              /\ Contiguous(PeriodsOf("A", d, "Lab"))
              /\ \A p \in PeriodsOf("A", d, "Lab") : Slot("A", d, p) = <<"Lab", "T", "R">>
        /\ remaining_periods["A"]["Lab"] = -1


\* ---------------------------------------------------------------------- C25
\* solve has returned True after a successful solve of every class
AllClassesSolved ==
    /\ Done
    /\ result = True
    /\ Len(progress) = Len(class_keys)
    /\ \A k \in 1..Len(progress) : progress[k][4] = True

\* C25: on every input with days >= 1 and periods >= 1 solve terminates,
\* solve_for_class returns True for every class and solve returns True: the
\* infeasible outcome is reported for no class.
C25_SolveReturnsTrue == <>[]AllClassesSolved

\* a finished solve that left a slot to FREE HOUR although a subject of the
\* class still had periods to place
C25_Witness ==
    /\ AllClassesSolved
    /\ \E c \in Classes : \E d \in Days : \E p \in Periods :
          /\ Slot(c, d, p) = FreeSlot
          /\ \E s \in Subjects(c) : remaining_periods[c][s] > 0


\* ---------------------------------------------------------------------- C26
\* C26: at every (day, period), a non-empty teacher is in the teacher table
\* exactly when some class holds a subject with that teacher there, and a
\* room is in the room table exactly when some class holds an assignment with
\* that room there: no reservation outlives its assignment.
C26_TablesMatchTimetables ==
    \A d \in Days : \A p \in Periods :
        LET held_t == {Slot(c, d, p)[2] : c \in {k \in Classes : Slot(k, d, p)[1] # FREE_HOUR}}
            held_r == {Slot(c, d, p)[3] : c \in Classes}
        IN  /\ teacher_schedule[d][p] \ {""} = held_t \ {""}
            /\ room_schedule[d][p] \ {DASH} = held_r \ {DASH}


\* ---------------------------------------------------------------------- C27
\* the slots of class c that hold subject s
SlotsOf(c, s) == {dp \in Days \X Periods : Slot(c, dp[1], dp[2])[1] = s}

\* C27: between placement operations, for every class and subject the ledger
\* entry plus the number of slots of the class that hold the subject is
\* credit_to_periods of the subject's credit.
C27_LedgerPlusSlots ==
    pc # "lab" =>
        \A c \in Classes : \A s \in Subjects(c) :
            remaining_periods[c][s] + Cardinality(SlotsOf(c, s))
                = credit_to_periods(classes[c].subjects[s].credit)


\* ---------------------------------------------------------------------- C28
\* the k-th slot in flat order, counted from 0
FlatDay(k) == 1 + (k \div periods)
FlatPeriod(k) == k % periods

\* the number of slots the cursor of the class being solved has moved past
Passed == Len(stack) - 1

\* C28: no placement is undone (a call of backtrack never returns False, so
\* remove_subject and remove_lab_continuous are not run), the frames of
\* backtrack are the slots in flat order, each once, up to the base case
\* after the last, and no step changes a slot the cursor has moved past.
C28_NothingUndone ==
    [][/\ (pc = "return" /\ stack # <<>>) => (ret = True /\ UNCHANGED solver_vars)
       /\ pc' = "return" => ret' = True
       /\ \A k \in 1..Len(stack') :
             /\ stack'[k].day = FlatDay(k - 1)
             /\ stack'[k].period = FlatPeriod(k - 1)
       /\ (pc' = "return" /\ pc = "enter") => Len(stack) = days * periods + 1
       /\ (pc \in {"enter", "try", "lab"}) =>
             \A k \in 0..(Passed - 1) :
                timetable'[class_name][DayKey(FlatDay(k))][FlatPeriod(k)]
                    = timetable[class_name][DayKey(FlatDay(k))][FlatPeriod(k)]
       /\ \A c \in Classes : \A d \in Days : \A p \in Periods :
             (pc = "done" \/ idx = 0 \/ idx > Len(sorted_classes) \/ c # class_name) =>
                timetable'[c][DayKey(d)][p] = timetable[c][DayKey(d)][p]]_vars

\* the cursor has passed every slot of a class that holds a lab block's first
\* slot, a regular subject and a FREE HOUR written over the block's second slot
C28_Witness ==
    /\ pc = "return"
    /\ stack = <<>>
    /\ days * periods >= 3
    /\ \E s \in Subjects(class_name) : \E d \in Days : \E p \in Periods :
          /\ IsLab(class_name, s)
          /\ classes[class_name].subjects[s].lab_continuous >= 2
          /\ Slot(class_name, d, p)[1] = s
          /\ p + 1 \in Periods
          /\ Slot(class_name, d, p + 1)[1] # s


\* ---------------------------------------------------------------------- C29
\* every lab of the input has a block of at least one period
LabsHaveLength ==
    \A c \in Classes : \A s \in Subjects(c) :
        classes[c].subjects[s].lab => classes[c].subjects[s].lab_continuous >= 1

\* C29: at the end of solve on an input whose labs all have lab_continuous
\* >= 1, no class has a subject, lab or not, in more than one slot of a day.
C29_OneSlotPerDayAtEnd ==
    (Done /\ LabsHaveLength) =>
        \A c \in Classes : \A d \in Days : \A s \in Subjects(c) :
            Cardinality(PeriodsOf(c, d, s)) <= 1

\* a finished solve in which a lab with blocks of two and a regular subject
\* of the same class each hold one slot of the same day
C29_Witness ==
    /\ Done
    /\ LabsHaveLength
    /\ \E c \in Classes : \E d \in Days : \E s \in Subjects(c) : \E r \in Subjects(c) :
          /\ classes[c].subjects[s].lab
          /\ classes[c].subjects[s].lab_continuous >= 2
          /\ ~classes[c].subjects[r].lab
          /\ Cardinality(PeriodsOf(c, d, s)) = 1
          /\ Cardinality(PeriodsOf(c, d, r)) = 1

\* ------------------------------------------------------------ C23
\* C23: while a solver thread started by generate_timetables is alive, a
\* further call of generate_timetables starts no second thread and leaves
\* the stored days and periods, the thread and every variable of the solve
\* in flight as they are; at no time are two solver threads alive.
C23_OneSolveInFlight ==
    /\ [](alive_threads <= 1)
    /\ [][(IsAlive /\ GenerateTimetables) =>
            UNCHANGED <<state, solver_thread, alive_threads, copy, called_with,
                        all_solver_vars>>]_vars

\* generate_timetables was called in the middle of a solve and answered Busy
C23_Witness ==
    /\ solver_thread = "running"
    /\ stack # <<>>
    /\ status = "Busy"
    /\ alive_threads = 1

\* ------------------------------------------------------------ C24
\* C24: the class data a solve works on equals the application's classes as
\* they were when generate_timetables was called, whatever the UI thread
\* does to the classes after the solver thread was started.
C24_InputIsSnapshot ==
    solver_thread \in {"running", "published", "notifying"} =>
        [order |-> class_keys, info |-> classes] = called_with

\* ------------------------------------------------------------ C30
\* C30: whenever no solver thread is alive (and no handler is half way),
\* the stored teacher_schedules is aggregate_teacher_schedules of the stored
\* timetables, with the days and periods of those timetables.
StoredDays == Cardinality(DOMAIN state.timetables.info[state.timetables.order[1]])

StoredPeriods ==
    Cardinality(DOMAIN state.timetables.info[state.timetables.order[1]][DayKey(1)])

C30_TeacherSchedulesMatch ==
    (alive_threads = 0 /\ ui = "idle") =>
        IF state.timetables.order = <<>>
        THEN state.teacher_schedules = <<>>
        ELSE state.teacher_schedules =
                aggregate_teacher_schedules(state.timetables.info, state.timetables.order,
                                            StoredPeriods, StoredDays)

============================================================================
